---- MODULE Spec2Model ----
(***************************************************************************)
(* Windows host security events notebooklet (msticnb.nb.azsent.host.       *)
(* win_host_events): the run / expand_events orchestrator and the table    *)
(* transformations it sequences (account-management filter, account        *)
(* normalization, Activity x Account pivot, EventData expansion).          *)
(*                                                                         *)
(* Encoding.  A Python str is the tuple of its characters, so that split   *)
(* and substring search are computed; a missing value (None / NaN / NaT)   *)
(* is the one-element tuple Null, which is no string.  An optional value   *)
(* is a tuple of length <= 1: None is << >>, a set value v is <<v>>.       *)
(* A table is a sequence of rows; a row keeps its index label in idx.      *)
(***************************************************************************)
EXTENDS Integers, Sequences, FiniteSets, TLC

\* ------------------------------------------------------------ bounds
\* rows of a table returned by the query provider (specification Spec)
MaxRows == 2
\* characters of an account string (specification SpecNorm)
MaxLen == 3
\* rows of a table handed to the pivot builder (specification SpecPivot)
MaxPivotRows == 2
\* rows of a table handed to the account-management filter (SpecFilter)
MaxFilterRows == 3
\* rows of a table handed to the payload expansion (SpecExpand)
MaxBatch == 2

\* ------------------------------------------------------------ values
None == << >>
Some(v) == <<v>>
Null == <<"NaN">>

\* "-\\-" : the three characters - \ -
Placeholder == <<"-","\\","-">>
NoAccount == <<"N","o"," ","A","c","c","o","u","n","t">>
EmptyStr == << >>
Backslash == "\\"
ActivityCol == <<"A","c","t","i","v","i","t","y">>
ScheduledTask == <<"s","c","h","e","d","u","l","e","d"," ","t","a","s","k">>
SvcInstallId == 7045

\* the exception a call raised; NoExc when it returned
NoExc == [type |-> "", arg |-> ""]
Exc(t, a) == [type |-> t, arg |-> a]

\* ------------------------------------------------------------ str
\* str.split(sep) for a one-character separator: the list of segments
RECURSIVE split(_, _)
split(s, sep) ==
    IF \A i \in 1..Len(s) : s[i] # sep
    THEN <<s>>
    ELSE LET i == CHOOSE k \in 1..Len(s) :
                      s[k] = sep /\ \A j \in 1..(k - 1) : s[j] # sep
         IN  <<SubSeq(s, 1, i - 1)>> \o split(SubSeq(s, i + 1, Len(s)), sep)

\* Series.str.contains(pat) for a pattern without regex metacharacters
str_contains(s, pat) ==
    \E i \in 0..(Len(s) - Len(pat)) : SubSeq(s, i + 1, i + Len(pat)) = pat

\* ------------------------------------------------------------ taxonomy
\* msticpy's WinSecurityEvent.json, as read by pd.read_json: a sample of its
\* rows, one per class the selection distinguishes
win_event_df ==
    << [event_id |-> 4720, subcategory |-> "User Account Management",
        description |-> <<"U","s","e","r"," ","a","c","c","t"," ","c","r","e","a","t","e","d">>],
       [event_id |-> 4732, subcategory |-> "Security Group Management",
        description |-> <<"M","e","m","b","e","r"," ","a","d","d","e","d"," ","t","o"," ","g","r","o","u","p">>],
       [event_id |-> 4698, subcategory |-> "Other Object Access Events",
        description |-> <<"A"," ","s","c","h","e","d","u","l","e","d"," ","t","a","s","k"," ","w","a","s"," ","c","r","e","a","t","e","d">>],
       [event_id |-> 5148, subcategory |-> "Other Object Access Events",
        description |-> <<"D","o","S"," ","a","t","t","a","c","k"," ","d","e","t","e","c","t","e","d">>],
       [event_id |-> 4648, subcategory |-> "Logon",
        description |-> <<"L","o","g","o","n"," ","a","t","t","e","m","p","t","e","d">>] >>

\* ------------------------------------------------------------ filter
acct_sel(t) == t.subcategory = "User Account Management"
group_sel(t) == t.subcategory = "Security Group Management"
schtask_sel(t) ==
    /\ t.subcategory = "Other Object Access Events"
    /\ str_contains(t.description, ScheduledTask)

\* win_event_df[acct_sel | group_sel | schtask_sel]["event_id"].to_list(),
\* then .append(7045)
event_list_NoSvcInstall ==
    LET sel(t) == acct_sel(t) \/ group_sel(t) \/ schtask_sel(t)
        picked == SelectSeq(win_event_df, sel)
    IN  [i \in 1..Len(picked) |-> picked[i].event_id]

event_list ==
    LET sel(t) == acct_sel(t) \/ group_sel(t) \/ schtask_sel(t)
        picked == SelectSeq(win_event_df, sel)
    IN  Append([i \in 1..Len(picked) |-> picked[i].event_id], SvcInstallId)

\* Series.isin(values)
isin(x, values) == \E i \in 1..Len(values) : values[i] = x

\* event_data[event_data["EventID"].isin(event_list)]: a boolean-mask
\* selection, which keeps the selected rows in order with their index labels
_extract_acct_mgmt_events(event_data) ==
    LET keep(r) == isin(r.EventID, event_list)
    IN  SelectSeq(event_data, keep)

\* ------------------------------------------------------------ normalizer
\* df[["Account", "Activity", "TimeGenerated"]].copy()
win_events_acc_copy(df) ==
    [i \in 1..Len(df) |->
        [idx |-> df[i].idx, Account |-> df[i].Account,
         Activity |-> df[i].Activity, TimeGenerated |-> df[i].TimeGenerated]]

\* DataFrame.replace("-\\-", "No Account"): every cell of the frame that
\* equals the placeholder, whatever its column
replace_placeholder(cell) == IF cell = Placeholder THEN NoAccount ELSE cell

\* DataFrame.replace({"Account": ""}, value="No Account"): the Account
\* column only
replace_empty(cell) == IF cell = EmptyStr THEN NoAccount ELSE cell

replace_frame(df) ==
    [i \in 1..Len(df) |->
        [idx |-> df[i].idx,
         Account |-> replace_empty(replace_placeholder(df[i].Account)),
         Activity |-> replace_placeholder(df[i].Activity),
         TimeGenerated |-> replace_placeholder(df[i].TimeGenerated)]]

\* lambda x: x.Account.split("\\")[-1]
last_segment(account) ==
    LET parts == split(account, Backslash) IN parts[Len(parts)]

\* the normalization of one account string: the two replaces, then the split
normalize_account(account) ==
    last_segment(replace_empty(replace_placeholder(account)))

\* win_events_acc["Account"] = win_events_acc.apply(lambda ..., axis=1)
\* x.Account.split raises AttributeError on a value that is no str
split_raises(df) == \E i \in 1..Len(df) : df[i].Account = Null

apply_split(df) ==
    [i \in 1..Len(df) |-> [df[i] EXCEPT !.Account = last_segment(@)]]

\* the frame the pivot is built from (lines 253-259 and 388-394)
normalize_frame(df) == apply_split(replace_frame(win_events_acc_copy(df)))

\* ------------------------------------------------------------ pivot
\* a cell of the unstacked table that no group filled (NaN)
NaNCell == -1
\* .fillna(0)
FillValue == 0

\* an operation's outcome: the exception it raised, or its value
Raised(t, a) == [exc |-> Exc(t, a), val |-> None]
Returned(v) == [exc |-> NoExc, val |-> Some(v)]

\* data.groupby(["Activity", "Account"]): groupby drops the rows whose key
\* is null
group_keys(df) ==
    { <<df[i].Activity, df[i].Account>> :
        i \in {k \in 1..Len(df) : df[k].Activity # Null /\ df[k].Account # Null} }

\* aggfunc="count" on values="TimeGenerated": the non-null values per group
group_count(df, key) ==
    Cardinality({i \in 1..Len(df) :
        /\ df[i].Activity = key[1] /\ df[i].Account = key[2]
        /\ df[i].TimeGenerated # Null})

\* pd.pivot_table(..., index=["Activity"], columns=["Account"]): the grouped
\* counts unstacked, NaN where a combination has no group.  (Its two dropna
\* steps drop nothing: a count is never NaN and every column has a group.)
pivot_table(df) ==
    LET keys == group_keys(df)
        rows == {k[1] : k \in keys}
        cols == {k[2] : k \in keys}
    IN  [index |-> rows, columns |-> cols,
         cell |-> [p \in rows \X cols |->
                     IF p \in keys THEN group_count(df, p) ELSE NaNCell]]

fillna(table, value) ==
    [table EXCEPT !.cell =
        [p \in DOMAIN table.cell |->
            IF table.cell[p] = NaNCell THEN value ELSE table.cell[p]]]

\* .reset_index(): the Activity index becomes a column, which fails when an
\* account column already has that name
reset_index_raises(table) == ActivityCol \in table.columns

reset_index(table) ==
    [Activity |-> table.index, columns |-> table.columns, cell |-> table.cell]

\* lines 253-270 and 388-405: copy, replace, split, pivot, fillna,
\* reset_index.  Two cases depend on the pandas build.  On a frame with no
\* rows apply(axis=1) returns a frame, not a column, and assigning it to the
\* Account column raises ValueError or leaves an empty frame.  When no row
\* has a group (no rows, or every Activity null) pivot_table raises KeyError
\* on the values column or returns an empty table.
event_pivot_outcomes(df) ==
    IF split_raises(df)
    THEN {Raised("AttributeError", "split")}
    ELSE LET table == fillna(pivot_table(normalize_frame(df)), FillValue)
         IN  IF Len(df) = 0
             THEN {Raised("ValueError", "Account"),
                   Raised("KeyError", "TimeGenerated"),
                   Returned(reset_index(table))}
             ELSE IF group_keys(normalize_frame(df)) = {}
             THEN {Raised("KeyError", "TimeGenerated"),
                   Returned(reset_index(table))}
             ELSE IF reset_index_raises(table)
             THEN {Raised("ValueError", "Activity")}
             ELSE {Returned(reset_index(table))}

_create_acct_event_pivot(account_event_data) ==
    event_pivot_outcomes(account_event_data)

\* ------------------------------------------------------------ payload
\* the columns of the provider's table (the row's index labels)
Columns ==
    {"EventID", "Activity", "Account", "TimeGenerated", "EventData",
     "TargetUserName"}

\* an EventData cell: a value that is no str (None / NaN), the str "", a str
\* that is not well-formed XML, or a well-formed document with its child
\* elements
NotStr == [kind |-> "notstr", elems |-> << >>]
EmptyXml == [kind |-> "empty", elems |-> << >>]
Malformed == [kind |-> "malformed", elems |-> << >>]
Doc(elems) == [kind |-> "doc", elems |-> elems]

\* a child element: its tag ("Data" stands for {SCHEMA}Data), its Name
\* attribute if it has one, and its text
Elem(tag, name, text) == [tag |-> tag, attrib |-> name, text |-> text]

\* ElementTree.fromstring(row.EventData)
fromstring_raises(event_data_cell) ==
    CASE event_data_cell.kind = "notstr" -> Exc("TypeError", "EventData")
      [] event_data_cell.kind \in {"empty", "malformed"} ->
             Exc("ParseError", "EventData")
      [] OTHER -> NoExc

\* xdoc.findall(f"{{{SCHEMA}}}Data")
findall_Data(xdoc) ==
    LET is_data(e) == e.tag = "Data" IN SelectSeq(xdoc.elems, is_data)

\* {elem.attrib["Name"]: elem.text for elem in ...}: a later element
\* overwrites an earlier one of the same name
col_dict_of(elems) ==
    LET names == {elems[i].attrib[1] : i \in 1..Len(elems)}
        last(n) == CHOOSE i \in 1..Len(elems) :
                      /\ elems[i].attrib[1] = n
                      /\ \A j \in (i + 1)..Len(elems) : elems[j].attrib[1] # n
    IN  [n \in names |-> elems[last(n)].text]

\* not row[key], by the column's type
is_falsy(col, cell) ==
    CASE col = "EventID" -> cell = 0
      [] col = "EventData" -> cell.kind = "empty"
      [] OTHER -> cell = EmptyStr

\* the keys the loop of lines 306-309 reassigns
reassigned_keys(row, col_dict) ==
    {key \in DOMAIN col_dict : key \in Columns /\ is_falsy(key, row[key])}

pop_keys(col_dict, keys) == [k \in (DOMAIN col_dict) \ keys |-> col_dict[k]]

\* exceptions the except clause of line 314 turns into a None result
CaughtTypes == {"ParseError", "TypeError"}

\* _parse_event_data_row(row): exc is what escapes the function, val its
\* return value (None, or the dict), row the Series as the function left it
_parse_event_data_row(row) ==
    LET parse_exc == fromstring_raises(row.EventData)
        elems == findall_Data(row.EventData)
        body_exc ==
            IF parse_exc # NoExc THEN parse_exc
            ELSE IF \E i \in 1..Len(elems) : elems[i].attrib = None
            THEN Exc("KeyError", "Name")
            ELSE NoExc
    IN  IF body_exc # NoExc
        THEN [exc |-> IF body_exc.type \in CaughtTypes THEN NoExc ELSE body_exc,
              val |-> None, row |-> row]
        ELSE LET col_dict == col_dict_of(elems)
                 reassigned == reassigned_keys(row, col_dict)
             IN  [exc |-> NoExc,
                  val |-> Some(pop_keys(col_dict, reassigned)),
                  row |-> [c \in DOMAIN row |->
                             IF c \in reassigned THEN col_dict[c] ELSE row[c]]]

\* ------------------------------------------------------------ expansion
\* the event_ids argument: None, one int, or a list of ints
NoIds == [kind |-> "none", v |-> << >>]
IntId(n) == [kind |-> "int", v |-> <<n>>]
ListIds(l) == [kind |-> "list", v |-> l]

\* "if event_ids:" is false for None, for 0 and for an empty list
ids_truthy(event_ids) ==
    CASE event_ids.kind = "none" -> FALSE
      [] event_ids.kind = "int" -> event_ids.v[1] # 0
      [] OTHER -> Len(event_ids.v) > 0

\* lines 350-355: the rows to process, always a copy
src_event_data_of(event_data, event_ids) ==
    IF ids_truthy(event_ids)
    THEN LET keep(r) == isin(r.EventID, event_ids.v)
         IN  SelectSeq(event_data, keep)
    ELSE event_data

\* a null cell and an empty-string cell of a column, by the column's type
nan_of(col) == IF col = "EventData" THEN NotStr ELSE Null
blank_of(col) == IF col = "EventData" THEN EmptyXml ELSE EmptyStr
is_null(col, cell) ==
    CASE col = "EventID" -> FALSE
      [] col = "EventData" -> cell.kind = "notstr"
      [] OTHER -> cell = Null
is_blank(col, cell) ==
    CASE col = "EventID" -> FALSE
      [] col = "EventData" -> cell.kind = "empty"
      [] OTHER -> cell = EmptyStr

\* exp_df = input_df.apply(lambda x: pd.Series(x.EventProperties), axis=1):
\* one column per key of any row's dict; pd.Series(None) has no entries
exp_df_columns(props) ==
    UNION {DOMAIN props[i][1] : i \in {k \in 1..Len(props) : props[k] # None}}

exp_df_cell(props, i, key) ==
    IF props[i] # None /\ key \in DOMAIN props[i][1]
    THEN props[i][1][key]
    ELSE Null

\* exp_df.drop(set(input_df.columns).intersection(exp_df.columns), axis=1)
\*   .merge(input_df.drop("EventProperties", axis=1), how="inner",
\*          left_index=True, right_index=True)
\* input_df is the table with its EventProperties column, here props
merge_on_index(input_df, props) ==
    LET exp_cols == exp_df_columns(props) \ (Columns \cup {"EventProperties"})
        cols == exp_cols \cup Columns
        pairs == { <<i, j>> \in (1..Len(input_df)) \X (1..Len(input_df)) :
                      input_df[i].idx = input_df[j].idx }
        \* the joined rows, in the order of the left frame
        ord(p) == (p[1] - 1) * Len(input_df) + p[2]
        RECURSIVE seq_of(_)
        seq_of(ps) ==
            IF ps = {} THEN << >>
            ELSE LET p == CHOOSE q \in ps : \A r \in ps : ord(q) <= ord(r)
                 IN  <<p>> \o seq_of(ps \ {p})
        joined == seq_of(pairs)
    IN  [columns |-> cols,
         rows |-> [n \in 1..Len(joined) |->
            [idx |-> input_df[joined[n][1]].idx,
             cells |-> [c \in cols |->
                IF c \in Columns THEN input_df[joined[n][2]][c]
                ELSE exp_df_cell(props, joined[n][1], c)]]]]

\* .replace("", np.nan)
replace_blank(table) ==
    [table EXCEPT !.rows =
        [n \in 1..Len(table.rows) |->
            [table.rows[n] EXCEPT !.cells =
                [c \in table.columns |->
                    IF is_blank(c, table.rows[n].cells[c]) THEN nan_of(c)
                    ELSE table.rows[n].cells[c]]]]]

\* .dropna(axis=1, how="all")
dropna_columns(table) ==
    LET kept == {c \in table.columns :
                    \E n \in 1..Len(table.rows) :
                        ~is_null(c, table.rows[n].cells[c])}
    IN  [columns |-> kept,
         rows |-> [n \in 1..Len(table.rows) |->
            [idx |-> table.rows[n].idx,
             cells |-> [c \in kept |-> table.rows[n].cells[c]]]]]

\* .fillna("")
fillna_blank(table) ==
    [table EXCEPT !.rows =
        [n \in 1..Len(table.rows) |->
            [table.rows[n] EXCEPT !.cells =
                [c \in table.columns |->
                    IF is_null(c, table.rows[n].cells[c]) THEN blank_of(c)
                    ELSE table.rows[n].cells[c]]]]]

_expand_event_properties(input_df, props) ==
    fillna_blank(dropna_columns(replace_blank(merge_on_index(input_df, props))))

\* src_event_data.apply(_parse_event_data_row, axis=1): apply hands the
\* function a Series built from a copy of the frame's values (the frame has
\* mixed dtypes), so of what the function does to its row only the return
\* value reaches the frame
apply_parse(src_event_data) ==
    [i \in 1..Len(src_event_data) |-> _parse_event_data_row(src_event_data[i])]

\* _parse_eventdata(event_data, event_ids): the outcomes.  The first row
\* whose parse raises ends the apply.  On a frame with no rows apply returns
\* a frame, and assigning it to the EventProperties column raises ValueError
\* or leaves an empty frame, by the pandas build.
_parse_eventdata(event_data, event_ids) ==
    LET src_event_data == src_event_data_of(event_data, event_ids)
        parsed == apply_parse(src_event_data)
        props == [i \in 1..Len(parsed) |-> parsed[i].val]
        failing == {i \in 1..Len(parsed) : parsed[i].exc # NoExc}
        expanded == Returned(_expand_event_properties(src_event_data, props))
    IN  IF Len(src_event_data) = 0
        THEN {[exc |-> Exc("ValueError", "EventProperties"), val |-> None],
              expanded}
        ELSE IF failing # {}
        THEN {[exc |-> parsed[CHOOSE i \in failing :
                                \A j \in failing : i <= j].exc,
               val |-> None]}
        ELSE {expanded}

\* ------------------------------------------------------------ notebooklet
VARIABLES
    last_result,  \* self._last_result: None, or the result of a run
    options,      \* self.options, as the base class's run set it
    ret,          \* what the last call returned
    raised,       \* the exception the last call raised (NoExc: none)
    effects,      \* what the last call did, in order: queries, displays, prints
    call,         \* the last call and its arguments
    arg,          \* the input a table transformation was applied to
    out,          \* the outcome of that transformation
    pc            \* how far an applied transformation has got

vars == <<last_result, options, ret, raised, effects, call, arg, out, pc>>

\* metadata: default_options and other_options
DefaultOptions == {"event_pivot", "acct_events"}
OtherOptions == {"expand_events"}

\* WinHostEventsResult(): every field None
WinHostEventsResult ==
    [all_events |-> None, event_pivot |-> None, account_events |-> None,
     account_pivot |-> None, account_timeline |-> None,
     expanded_events |-> None]

\* what a call returns: None, the result object, or a table
RetNone == [kind |-> "none", v |-> << >>]
RetResult(r) == [kind |-> "result", v |-> <<r>>]
RetFrame(t) == [kind |-> "frame", v |-> <<t>>]

NoCall == [op |-> "", value |-> None, timespan |-> None, data |-> None,
           event_ids |-> NoIds]

\* the options argument: None, or names given plain or with a "+" prefix.
\* None means the default options; "+" names are added to the defaults.
NoOptions == None
PlainOptions(names) == Some([plus |-> {}, plain |-> names])
PlusOptions(names) == Some([plus |-> names, plain |-> {}])

super_run_options(options_arg) ==
    IF options_arg = None THEN DefaultOptions
    ELSE IF options_arg[1].plus # {}
    THEN DefaultOptions \cup options_arg[1].plus
    ELSE options_arg[1].plain

\* "not value" for an optional str
not_value(value) == value = None \/ value = Some(EmptyStr)

\* _get_win_security_events: the provider's table and the pivot of it
_get_win_security_events(all_events_df) == event_pivot_outcomes(all_events_df)

\* what _display_acct_mgmt_timeline returns
Figure == "Figure"

\* how a call ends: the exception raised or the value returned, the
\* _last_result it leaves, and what it did
Ends(exc, r, last, eff) ==
    [raised |-> exc, ret |-> r, last_result |-> last, effects |-> eff]

\* lines 174-197: the result object a run that raised nothing builds; p, a
\* and x are the outcomes of the event pivot, the account pivot and the
\* expansion
result_of_PivotGated(opts, data, account_events, p, a, x) ==
    LET r0 == [WinHostEventsResult EXCEPT
                  !.all_events = Some(data),
                  !.event_pivot = IF "event_pivot" \in opts THEN p.val ELSE None]
        r1 == IF "acct_events" \in opts
              THEN [r0 EXCEPT !.account_events = Some(account_events),
                              !.account_pivot = a.val,
                              !.account_timeline = Some(Figure)]
              ELSE r0
    IN  IF "expand_events" \in opts
        THEN [r1 EXCEPT !.expanded_events = x.val]
        ELSE r1

\* the result object had lines 253-259 normalized the accounts of the
\* provider's table itself instead of those of a copy
result_of_NormalizedInPlace(opts, data, account_events, p, a, x) ==
    LET normalized == [i \in 1..Len(data) |->
                          [data[i] EXCEPT !.Account = normalize_account(@)]]
        r0 == [WinHostEventsResult EXCEPT
                  !.all_events = Some(normalized), !.event_pivot = p.val]
        r1 == IF "acct_events" \in opts
              THEN [r0 EXCEPT !.account_events = Some(account_events),
                              !.account_pivot = a.val,
                              !.account_timeline = Some(Figure)]
              ELSE r0
    IN  IF "expand_events" \in opts
        THEN [r1 EXCEPT !.expanded_events = x.val]
        ELSE r1

result_of(opts, data, account_events, p, a, x) ==
    LET r0 == [WinHostEventsResult EXCEPT
                  !.all_events = Some(data), !.event_pivot = p.val]
        r1 == IF "acct_events" \in opts
              THEN [r0 EXCEPT !.account_events = Some(account_events),
                              !.account_pivot = a.val,
                              !.account_timeline = Some(Figure)]
              ELSE r0
    IN  IF "expand_events" \in opts
        THEN [r1 EXCEPT !.expanded_events = x.val]
        ELSE r1

\* line 199: self._last_result = result
store_last_KeepFirst(prior, result) ==
    IF prior = None THEN Some(result) ELSE prior

store_last(prior, result) == Some(result)

\* lines 174-200: the run once its arguments are accepted.  prior is
\* self._last_result before the call, opts self.options, data the table the
\* provider returns
run_pipeline(prior, opts, data) ==
    LET e0 == <<"super.run", "list_host_events">>
        e1 == IF "event_pivot" \in opts
              THEN e0 \o <<"_display_event_pivot">> ELSE e0
        account_events == _extract_acct_mgmt_events(data)
        acct_outcomes ==
            IF "acct_events" \in opts
            THEN _create_acct_event_pivot(account_events)
            ELSE {Returned(None)}
        e2 == IF "acct_events" \in opts
              THEN e1 \o <<"_display_acct_event_pivot",
                           "_display_acct_mgmt_timeline">>
              ELSE e1
        expand_outcomes ==
            IF "expand_events" \in opts
            THEN _parse_eventdata(data, NoIds)
            ELSE {Returned(None)}
        e3 == IF "expand_events" \in opts
              THEN e2 \o <<"_parse_eventdata">> ELSE e2
        end(p, a, x) ==
            IF p.exc # NoExc THEN Ends(p.exc, RetNone, prior, e0)
            ELSE IF a.exc # NoExc THEN Ends(a.exc, RetNone, prior, e1)
            ELSE IF x.exc # NoExc THEN Ends(x.exc, RetNone, prior, e3)
            ELSE
            LET result == result_of(opts, data, account_events, p, a, x)
                stored == store_last(prior, result)
            IN  Ends(NoExc, RetResult(stored[1]), stored,
                     e3 \o <<"nb_markdown">>)
    IN  {end(p, a, x) : p \in _get_win_security_events(data),
                        a \in acct_outcomes, x \in expand_outcomes}

\* WinHostEvents.run after super().run
run_ChecksAfterQuery(prior, opts, value, timespan_arg, data) ==
    IF not_value(value) \/ timespan_arg = None
    THEN {Ends(Exc("MsticnbMissingParameterError",
                   IF not_value(value) THEN "value" ELSE "timespan."),
               RetNone, e.last_result, e.effects) :
             e \in run_pipeline(prior, opts, data)}
    ELSE run_pipeline(prior, opts, data)

run(prior, opts, value, timespan_arg, data) ==
    IF not_value(value)
    THEN {Ends(Exc("MsticnbMissingParameterError", "value"), RetNone, prior,
               <<"super.run">>)}
    ELSE IF timespan_arg = None
    THEN {Ends(Exc("MsticnbMissingParameterError", "timespan."), RetNone,
               prior, <<"super.run">>)}
    ELSE run_pipeline(prior, opts, data)

\* the guidance expand_events prints when there is nothing to expand
Guidance == "print: Please use 'run()' to fetch the data before using this method."

\* WinHostEvents.expand_events(event_ids)
expand_events_NoGuard(prior, event_ids) ==
    IF prior = None \/ prior[1].all_events = None
    THEN {Ends(Exc("AttributeError", "all_events"), RetNone, prior,
               <<"_parse_eventdata">>)}
    ELSE {IF x.exc # NoExc
          THEN Ends(x.exc, RetNone, prior, <<"_parse_eventdata">>)
          ELSE Ends(NoExc, RetFrame(x.val[1]), prior, <<"_parse_eventdata">>) :
             x \in _parse_eventdata(prior[1].all_events[1], event_ids)}

\* expand_events with the selection of lines 350-355 made on all_events
\* itself instead of on a copy
expand_events_InPlace(prior, event_ids) ==
    IF prior = None \/ prior[1].all_events = None
    THEN {Ends(NoExc, RetNone, prior, <<Guidance>>)}
    ELSE LET src == src_event_data_of(prior[1].all_events[1], event_ids)
             kept == Some([prior[1] EXCEPT !.all_events = Some(src)])
         IN  {IF x.exc # NoExc
              THEN Ends(x.exc, RetNone, kept, <<"_parse_eventdata">>)
              ELSE Ends(NoExc, RetFrame(x.val[1]), kept, <<"_parse_eventdata">>) :
                 x \in _parse_eventdata(src, NoIds)}

expand_events(prior, event_ids) ==
    IF prior = None \/ prior[1].all_events = None
    THEN {Ends(NoExc, RetNone, prior, <<Guidance>>)}
    ELSE {IF x.exc # NoExc
          THEN Ends(x.exc, RetNone, prior, <<"_parse_eventdata">>)
          ELSE Ends(NoExc, RetFrame(x.val[1]), prior, <<"_parse_eventdata">>) :
             x \in _parse_eventdata(prior[1].all_events[1], event_ids)}

\* ------------------------------------------------------------ inputs
\* rows the provider may return, without their index label
RowOf(eid, act, acct, ts, ed, tun) ==
    [EventID |-> eid, Activity |-> act, Account |-> acct,
     TimeGenerated |-> ts, EventData |-> ed, TargetUserName |-> tun]

SampleRows ==
    { RowOf(4720, <<"A">>, Placeholder, <<"T1">>,
            Doc(<<Elem("Data", Some("TargetUserName"), <<"b">>),
                  Elem("Data", Some("SubjectUserName"), <<"s">>)>>),
            EmptyStr),
      RowOf(4648, <<"B">>, <<"D","\\","a">>, <<"T2">>,
            Doc(<<Elem("Data", None, <<"x">>)>>), <<"a">>) }

\* a table of the given rows with a RangeIndex: labels 0 .. n-1
WithIndex(rows) ==
    [i \in 1..Len(rows) |->
        [idx |-> i - 1, EventID |-> rows[i].EventID,
         Activity |-> rows[i].Activity, Account |-> rows[i].Account,
         TimeGenerated |-> rows[i].TimeGenerated,
         EventData |-> rows[i].EventData,
         TargetUserName |-> rows[i].TargetUserName]]

TablesOf(rowset, maxlen) ==
    {WithIndex(t) : t \in UNION {[1..n -> rowset] : n \in 0..maxlen}}

ProviderTables == TablesOf(SampleRows, MaxRows)

Values == {None, Some(EmptyStr), Some(<<"h">>)}
TimeSpans == {None, Some("TimeSpan")}
OptionArgs ==
    {NoOptions, PlusOptions({"expand_events"}),
     PlainOptions({"event_pivot"}), PlainOptions({"expand_events"})}
EventIdArgs ==
    {NoIds, IntId(4720), ListIds(<< >>), ListIds(<<4720, 4648>>)}

\* ------------------------------------------------------------ Spec
\* a new notebooklet: no run yet
Init ==
    /\ last_result = None
    /\ options = {}
    /\ ret = RetNone
    /\ raised = NoExc
    /\ effects = << >>
    /\ call = NoCall
    /\ arg = None
    /\ out = None
    /\ pc = "idle"

\* nb.run(value, timespan=..., options=...) with arguments that fail the
\* checks of lines 169-172: the provider is not queried
RunRejected(value, timespan_arg, options_arg) ==
    /\ not_value(value) \/ timespan_arg = None
    /\ \E e \in run(last_result, super_run_options(options_arg), value,
                    timespan_arg, << >>) :
          /\ last_result' = e.last_result
          /\ ret' = e.ret
          /\ raised' = e.raised
          /\ effects' = e.effects
    /\ options' = super_run_options(options_arg)
    /\ call' = [NoCall EXCEPT !.op = "run", !.value = value,
                              !.timespan = timespan_arg]
    /\ UNCHANGED <<arg, out, pc>>

\* nb.run(...) with accepted arguments; data is what the provider returns
RunAccepted(value, timespan_arg, options_arg, data) ==
    /\ ~(not_value(value) \/ timespan_arg = None)
    /\ \E e \in run(last_result, super_run_options(options_arg), value,
                    timespan_arg, data) :
          /\ last_result' = e.last_result
          /\ ret' = e.ret
          /\ raised' = e.raised
          /\ effects' = e.effects
    /\ options' = super_run_options(options_arg)
    /\ call' = [NoCall EXCEPT !.op = "run", !.value = value,
                              !.timespan = timespan_arg, !.data = Some(data)]
    /\ UNCHANGED <<arg, out, pc>>

\* nb.expand_events(event_ids)
ExpandEvents(event_ids) ==
    /\ \E e \in expand_events(last_result, event_ids) :
          /\ last_result' = e.last_result
          /\ ret' = e.ret
          /\ raised' = e.raised
          /\ effects' = e.effects
    /\ call' = [NoCall EXCEPT !.op = "expand_events", !.event_ids = event_ids]
    /\ UNCHANGED <<options, arg, out, pc>>

Next ==
    \/ \E value \in Values, timespan_arg \in TimeSpans, options_arg \in OptionArgs :
          RunRejected(value, timespan_arg, options_arg)
    \/ \E value \in Values, timespan_arg \in TimeSpans, options_arg \in OptionArgs,
          data \in ProviderTables :
          RunAccepted(value, timespan_arg, options_arg, data)
    \/ \E event_ids \in EventIdArgs : ExpandEvents(event_ids)

Spec == Init /\ [][Next]_vars

\* ------------------------------------------------------------ SpecFilter
\* the notebooklet is not involved when a transformation is applied alone
NotebookletIdle ==
    /\ last_result = None
    /\ options = {}
    /\ ret = RetNone
    /\ raised = NoExc
    /\ effects = << >>
    /\ call = NoCall

\* event identifiers of the rows handed to the filter: the taxonomy's, the
\* service install, and one the taxonomy does not know
FilterEventIds == {4720, 4732, 4698, 5148, 4648, SvcInstallId, 1102}

FilterRows ==
    {RowOf(eid, <<"A">>, <<"a">>, <<"T1">>, NotStr, EmptyStr) :
        eid \in FilterEventIds}

InitFilter ==
    /\ NotebookletIdle
    /\ arg \in TablesOf(FilterRows, MaxFilterRows)
    /\ out = None
    /\ pc = "start"

ExtractAcctMgmtEvents ==
    /\ pc = "start"
    /\ out' = _extract_acct_mgmt_events(arg)
    /\ pc' = "done"
    /\ UNCHANGED <<last_result, options, ret, raised, effects, call, arg>>

NextFilter == ExtractAcctMgmtEvents

SpecFilter == InitFilter /\ [][NextFilter]_vars

\* ------------------------------------------------------------ SpecNorm
Alphabet == {"-", "\\", "a"}

\* the account strings of at most MaxLen characters, and the sentinel
AccountStrings ==
    UNION {[1..n -> Alphabet] : n \in 0..MaxLen} \cup {NoAccount}

NormRows ==
    {RowOf(4720, act, acct, <<"T1">>, NotStr, EmptyStr) :
        act \in {<<"A">>, Placeholder}, acct \in AccountStrings}

\* a second row, to see that rows are normalized one by one
NormSecondRows ==
    {RowOf(4732, <<"B">>, acct, <<"T2">>, NotStr, EmptyStr) :
        acct \in {EmptyStr, <<"D", "\\", "a">>}}

InitNorm ==
    /\ NotebookletIdle
    /\ arg \in {WithIndex(<<r>>) : r \in NormRows}
            \cup {WithIndex(<<r, q>>) : r \in NormRows, q \in NormSecondRows}
    /\ out = None
    /\ pc = "start"

\* lines 253-259 applied to the frame
Normalize ==
    /\ pc = "start"
    /\ out' = [once |-> normalize_frame(arg), twice |-> << >>]
    /\ pc' = "once"
    /\ UNCHANGED <<last_result, options, ret, raised, effects, call, arg>>

\* the same lines applied to their own result
NormalizeAgain ==
    /\ pc = "once"
    /\ out' = [out EXCEPT !.twice = normalize_frame(out.once)]
    /\ pc' = "twice"
    /\ UNCHANGED <<last_result, options, ret, raised, effects, call, arg>>

NextNorm == Normalize \/ NormalizeAgain

SpecNorm == InitNorm /\ [][NextNorm]_vars

\* ------------------------------------------------------------ SpecPivot
PivotAccounts ==
    {EmptyStr, Placeholder, <<"a">>, <<"D", "\\", "a">>, ActivityCol, Null}
PivotActivities == {<<"A">>, <<"B">>, Placeholder, Null}
PivotTimes == {<<"T1">>, Null}

PivotRows ==
    {RowOf(4720, act, acct, ts, NotStr, EmptyStr) :
        act \in PivotActivities, acct \in PivotAccounts, ts \in PivotTimes}

InitPivot ==
    /\ NotebookletIdle
    /\ arg \in TablesOf(PivotRows, MaxPivotRows)
    /\ out = None
    /\ pc = "start"

CreateAcctEventPivot ==
    /\ pc = "start"
    /\ \E o \in _create_acct_event_pivot(arg) : out' = o
    /\ pc' = "done"
    /\ UNCHANGED <<last_result, options, ret, raised, effects, call, arg>>

NextPivot == CreateAcctEventPivot

SpecPivot == InitPivot /\ [][NextPivot]_vars

\* ------------------------------------------------------------ SpecExpand
ExpandPayloads ==
    {NotStr, Malformed,
     Doc(<<Elem("Data", None, <<"x">>)>>),
     Doc(<<Elem("Data", Some("TargetUserName"), <<"b">>)>>),
     Doc(<<Elem("Data", Some("SubjectUserName"), <<"s">>),
           Elem("Other", None, <<"o">>),
           Elem("Data", Some("SubjectUserName"), <<"t">>)>>)}

ExpandRows ==
    {RowOf(eid, <<"A">>, <<"a">>, <<"T1">>, ed, tun) :
        eid \in {4720, 4732}, ed \in ExpandPayloads,
        tun \in {EmptyStr, <<"u">>}}

ExpandIdArgs == {NoIds, IntId(4720), ListIds(<<4732>>), ListIds(<< >>)}

InitExpand ==
    /\ NotebookletIdle
    /\ arg \in [event_data : TablesOf(ExpandRows, MaxBatch),
                event_ids : ExpandIdArgs]
    /\ out = None
    /\ pc = "start"

ParseEventdata ==
    /\ pc = "start"
    /\ \E o \in _parse_eventdata(arg.event_data, arg.event_ids) : out' = o
    /\ pc' = "done"
    /\ UNCHANGED <<last_result, options, ret, raised, effects, call, arg>>

NextExpand == ParseEventdata

SpecExpand == InitExpand /\ [][NextExpand]_vars

\* ------------------------------------------------------------ claims
MissingParameter(field) == Exc("MsticnbMissingParameterError", field)

\* the step just taken was a run call whose value or timespan was empty or
\* absent
RejectedRunStep ==
    /\ call'.op = "run"
    /\ not_value(call'.value) \/ call'.timespan = None

C2_ExpandBeforeRun ==
    [][(call'.op = "expand_events" /\ last_result = None) =>
          /\ raised' = NoExc
          /\ ret' = RetNone
          /\ effects' = <<Guidance>>
          /\ last_result' = None]_vars

C2_Witness ==
    /\ call.op = "expand_events"
    /\ call.event_ids = IntId(4720)
    /\ last_result = None
    /\ effects = <<Guidance>>

\* the last call was a run that returned its result
SuccessfulRun == call.op = "run" /\ raised = NoExc /\ ret.kind = "result"

\* C3: the result of a successful run always has all_events and event_pivot;
\* it has account_events, account_pivot and account_timeline exactly when
\* "acct_events" is among the options in effect, and expanded_events exactly
\* when "expand_events" is; the other fields are None.
C3_ResultFieldsByOption ==
    SuccessfulRun =>
        LET r == ret.v[1]
        IN  /\ r.all_events # None
            /\ r.event_pivot # None
            /\ (r.account_events # None) <=> ("acct_events" \in options)
            /\ (r.account_pivot # None) <=> ("acct_events" \in options)
            /\ (r.account_timeline # None) <=> ("acct_events" \in options)
            /\ (r.expanded_events # None) <=> ("expand_events" \in options)

\* a successful run with only "expand_events" in effect: the pivot is
\* computed though not displayed
C3_Witness ==
    /\ SuccessfulRun
    /\ options = {"expand_events"}
    /\ ret.v[1].event_pivot # None
    /\ ret.v[1].expanded_events # None
    /\ ret.v[1].account_events = None
    /\ "_display_event_pivot" \notin {effects[i] : i \in 1..Len(effects)}

\* C4: _last_result changes only in a run that returns, which stores the
\* result it returns, built from the table the provider returned to that
\* run; a failing run and expand_events leave it alone; and expand_events
\* expands the all_events of the stored result.
C4_LastResultIsLatestSuccess ==
    [][/\ (call'.op = "run" /\ raised' = NoExc) =>
              /\ ret'.kind = "result"
              /\ last_result' = Some(ret'.v[1])
              /\ ret'.v[1].all_events = call'.data
       /\ ~(call'.op = "run" /\ raised' = NoExc) => last_result' = last_result
       /\ (call'.op = "expand_events" /\ last_result # None) =>
              \E x \in _parse_eventdata(last_result[1].all_events[1],
                                        call'.event_ids) :
                  /\ raised' = x.exc
                  /\ (x.exc = NoExc => ret' = RetFrame(x.val[1]))]_vars

\* a run that failed after the provider was queried, with the result of an
\* earlier run still stored and other than the failed run's table
C4_Witness ==
    /\ call.op = "run"
    /\ raised # NoExc
    /\ call.data # None
    /\ last_result # None
    /\ last_result[1].all_events # call.data

\* the identifiers the taxonomy classes as account management, group
\* management or scheduled task, and the service install
InterestingIds ==
    {win_event_df[i].event_id : i \in
        {k \in 1..Len(win_event_df) :
            \/ win_event_df[k].subcategory \in
                 {"User Account Management", "Security Group Management"}
            \/ /\ win_event_df[k].subcategory = "Other Object Access Events"
               /\ str_contains(win_event_df[k].description, ScheduledTask)}}
    \cup {7045}

\* C5: the account-management filter returns the rows of its input whose
\* EventID is interesting, all of them, each once and in input order.
C5_FilterKeepsExactlyInteresting ==
    pc = "done" =>
        /\ \A j \in 1..Len(out) : out[j] = arg[out[j].idx + 1]
        /\ \A j \in 1..(Len(out) - 1) : out[j].idx < out[j + 1].idx
        /\ \A i \in 1..Len(arg) :
              (arg[i].EventID \in InterestingIds)
                  <=> (\E j \in 1..Len(out) : out[j].idx = arg[i].idx)

\* a table where the filter keeps a service install and a scheduled task
\* and drops another object-access event
C5_Witness ==
    /\ pc = "done"
    /\ Len(arg) = 3 /\ Len(out) = 2
    /\ \E j \in 1..Len(out) : out[j].EventID = 7045
    /\ \E j \in 1..Len(out) : out[j].EventID = 4698
    /\ \E i \in 1..Len(arg) : arg[i].EventID = 5148

\* the part of an account string after its last backslash (all of it when
\* it has none)
AfterLastBackslash(s) ==
    LET at == {k \in 1..Len(s) : s[k] = "\\"}
        last == IF at = {} THEN 0 ELSE CHOOSE k \in at : \A j \in at : j <= k
    IN  SubSeq(s, last + 1, Len(s))

\* C6: normalization maps each row's account to "No Account" when it is
\* empty or the placeholder and to its last backslash-separated segment
\* otherwise, and leaves the row's Activity and TimeGenerated as they were.
C6_NormalizationPerRow ==
    pc = "once" =>
        \A i \in 1..Len(arg) :
            /\ out.once[i].Account =
                  IF arg[i].Account \in {EmptyStr, Placeholder}
                  THEN NoAccount
                  ELSE AfterLastBackslash(arg[i].Account)
            /\ out.once[i].Activity = arg[i].Activity
            /\ out.once[i].TimeGenerated = arg[i].TimeGenerated

\* C7: normalizing a normalized account changes nothing.
C7_NormalizationIdempotent ==
    pc = "twice" =>
        \A i \in 1..Len(arg) : out.twice[i].Account = out.once[i].Account

RECURSIVE SumOver(_, _)
SumOver(f, S) ==
    IF S = {} THEN 0
    ELSE LET x == CHOOSE y \in S : TRUE IN f[x] + SumOver(f, S \ {x})

\* C8: the cells of the pivot add up to the number of input records, also
\* when records lack a timestamp or an activity.
C8_PivotTotal ==
    (pc = "done" /\ out.exc = NoExc) =>
        SumOver(out.val[1].cell, DOMAIN out.val[1].cell) = Len(arg)

\* C9: the pivot has one row per activity label of the input and one column
\* per normalized account name of the input, and each cell is the number of
\* input records with that activity and account, 0 when there is none.
C9_PivotShape ==
    (pc = "done" /\ out.exc = NoExc) =>
        LET t == out.val[1]
            acts == {arg[i].Activity : i \in 1..Len(arg)} \ {Null}
            accts == {normalize_account(arg[i].Account) : i \in 1..Len(arg)}
        IN  /\ t.Activity = acts
            /\ t.columns = accts
            /\ DOMAIN t.cell = acts \X accts
            /\ \A p \in acts \X accts :
                  t.cell[p] = Cardinality({i \in 1..Len(arg) :
                      /\ arg[i].Activity = p[1]
                      /\ normalize_account(arg[i].Account) = p[2]})

\* a payload that cannot be used: no str, not well-formed, or with a Data
\* element that has no Name attribute
UnusablePayload(ed) ==
    \/ ed.kind \in {"notstr", "empty", "malformed"}
    \/ \E k \in 1..Len(ed.elems) :
          ed.elems[k].tag = "Data" /\ ed.elems[k].attrib = None

\* the cell of a row of an expanded table, blank when the table has dropped
\* the column
CellOrBlank(table, n, c) ==
    IF c \in table.columns THEN table.rows[n].cells[c] ELSE blank_of(c)

\* C10: a batch with rows whose payload cannot be used is expanded without
\* raising; such a row is in the output with no payload-derived value, and
\* every other row is expanded as in the batch without those rows.
C10_BadRowDoesNotAbort ==
    pc = "done" =>
        LET batch == src_event_data_of(arg.event_data, arg.event_ids)
            bad == {i \in 1..Len(batch) : UnusablePayload(batch[i].EventData)}
            usable(r) == ~UnusablePayload(r.EventData)
            alone == SelectSeq(batch, usable)
            ref == _expand_event_properties(alone,
                      [i \in 1..Len(alone) |->
                          _parse_event_data_row(alone[i]).val])
        IN  bad # {} =>
              /\ out.exc = NoExc
              /\ Len(out.val[1].rows) = Len(batch)
              /\ \A n \in 1..Len(batch) :
                    /\ out.val[1].rows[n].idx = batch[n].idx
                    /\ n \in bad =>
                          \A c \in out.val[1].columns \ Columns :
                              out.val[1].rows[n].cells[c] = EmptyStr
              /\ \A m \in 1..Len(alone) :
                    \E n \in 1..Len(batch) :
                        /\ batch[n].idx = alone[m].idx
                        /\ \A c \in out.val[1].columns \cup ref.columns :
                              CellOrBlank(out.val[1], n, c)
                                  = CellOrBlank(ref, m, c)

\* the payload of a row as a mapping from names to texts
PayloadOf(r) == col_dict_of(findall_Data(r.EventData))

\* C11: in the table an expansion returns, for every processed row and every
\* payload key that is a column of the row, the row's cell in that column is
\* the payload's value when the row's own value was empty, and the row's own
\* value when it was not (the table has one column of that name, so the key
\* is no second, payload-derived column).
C11_PayloadAbsorbed ==
    (pc = "done" /\ out.exc = NoExc) =>
        LET batch == src_event_data_of(arg.event_data, arg.event_ids)
            table == out.val[1]
        IN  \A n \in 1..Len(batch) :
                ~UnusablePayload(batch[n].EventData) =>
                    \A key \in (DOMAIN PayloadOf(batch[n])) \cap Columns :
                        /\ key \in table.columns
                        /\ table.rows[n].idx = batch[n].idx
                        /\ table.rows[n].cells[key] =
                              IF is_falsy(key, batch[n][key])
                              THEN PayloadOf(batch[n])[key]
                              ELSE batch[n][key]

\* the set of identifiers an event_ids argument supplies
SuppliedIds(event_ids) == {event_ids.v[k] : k \in 1..Len(event_ids.v)}

\* the rows an expansion is asked to process: all of them when no event_ids
\* are given, otherwise those whose EventID is one of the supplied ones
RowsAskedFor(event_data, event_ids) ==
    IF event_ids.kind = "none"
    THEN event_data
    ELSE LET asked(r) == r.EventID \in SuppliedIds(event_ids)
         IN  SelectSeq(event_data, asked)

\* C12: an expansion returns a table with exactly one row for each row it
\* was asked to process, in their order: the rows whose EventID is among the
\* supplied identifiers (one integer counting as a set of one), or every row
\* when no identifiers are given.
C12_ProcessesExactlyAskedRows ==
    pc = "done" =>
        LET asked == RowsAskedFor(arg.event_data, arg.event_ids)
        IN  /\ out.exc = NoExc
            /\ Len(out.val[1].rows) = Len(asked)
            /\ \A n \in 1..Len(asked) : out.val[1].rows[n].idx = asked[n].idx

\* the step just taken was an expand_events call
ExpandStep == call'.op = "expand_events"

\* the tables an expansion of a table with given event_ids can return
ExpansionTables(all_events, event_ids) ==
    {x.val[1] : x \in {y \in _parse_eventdata(all_events, event_ids) :
                          y.exc = NoExc}}

SuccessfulRunStep == call'.op = "run" /\ raised' = NoExc

\* C14: all_events of the last result is the table the provider returned
\* for the run that made it: a run that succeeds stores the provider's
\* table as it got it, and neither a failed run nor an expand_events call
\* changes a row or a value of it (accounts and absorbed columns included).
C14_AllEventsUntouched ==
    [][/\ SuccessfulRunStep => last_result'[1].all_events = call'.data
       /\ (~SuccessfulRunStep /\ last_result' # None) =>
             /\ last_result # None
             /\ last_result'[1].all_events = last_result[1].all_events
      ]_vars

\* after a run that built the pivots and expanded the payloads, an
\* expand_events call has returned a table, and the stored all_events still
\* has the row with the placeholder account and the empty column that the
\* row's payload names
C14_Witness ==
    /\ call.op = "expand_events"
    /\ ret.kind = "frame"
    /\ last_result # None
    /\ last_result[1].event_pivot # None
    /\ last_result[1].expanded_events # None
    /\ \E i \in 1..Len(last_result[1].all_events[1]) :
          LET r == last_result[1].all_events[1][i]
          IN  /\ r.Account = Placeholder
              /\ r.TargetUserName = EmptyStr
              /\ "TargetUserName" \in DOMAIN PayloadOf(r)

====
